---- MODULE Spec2Model ----
(***************************************************************************)
(* Histogram-binning calibration (src/histogram_binning_est.py): the class *)
(* histogram_binning_posterior_estimator as a state machine.               *)
(*                                                                         *)
(* Numbers are exact extended rationals <<num, den>> (den = 0 encodes the  *)
(* IEEE values the code can produce by dividing by zero: <<0,0>> is NaN,   *)
(* <<1,0>> is +inf, <<-1,0>> is -inf).  Rounding of float32 is not         *)
(* modelled.  Bins and classes are numbered from 1 here, from 0 in the     *)
(* source: bin b of the model is histogram[b-1] of the source.             *)
(***************************************************************************)
EXTENDS Integers, Sequences, FiniteSets, TLC

\* bounds of the model
MaxBins == 2        \* n_bins of the estimator ranges over 1..MaxBins
MaxVal == 2         \* a validation set holds at most MaxVal examples

Classes == 1..3             \* class indices of a softmax row
BatchSizes == {1, 2}        \* rows in a batch of softmax vectors
Res(n) == 2 * n             \* inputs lie on the grid k/Res(n): the bin edges and the bin centres

(***************************************************************************)
(* Tensor arithmetic                                                       *)
(***************************************************************************)
Abs(x) == IF x < 0 THEN -x ELSE x
Sign(x) == IF x < 0 THEN -1 ELSE IF x > 0 THEN 1 ELSE 0

GCD(a, b) ==
  LET gcd[x \in Nat, y \in Nat] == IF y = 0 THEN x ELSE gcd[y, x % y]
  IN  gcd[a, b]

Norm(n, d) ==
  IF d = 0 THEN <<Sign(n), 0>>
  ELSE LET g == GCD(Abs(n), Abs(d))
           s == IF d < 0 THEN -1 ELSE 1
       IN  <<(s * n) \div g, (s * d) \div g>>

Zero == <<0, 1>>
One == <<1, 1>>
NaN == <<0, 0>>
UNDEFINED == <<-1, 1>>

RMul(a, b) == Norm(a[1] * b[1], a[2] * b[2])
RAdd(a, b) ==
  IF a[2] = 0 /\ b[2] = 0
  THEN (IF a = b THEN a ELSE NaN)
  ELSE Norm(a[1] * b[2] + b[1] * a[2], a[2] * b[2])
RNeg(a) == <<-a[1], a[2]>>
RSub(a, b) == RAdd(a, RNeg(b))
RRecip(a) == IF a[1] < 0 THEN <<-a[2], -a[1]>> ELSE <<a[2], a[1]>>
RDiv(a, b) == RMul(a, RRecip(b))

\* comparisons: every comparison with NaN is false
REq(a, b) == a # NaN /\ b # NaN /\ a = b
RLt(a, b) ==
  /\ a # NaN /\ b # NaN /\ a # b
  /\ IF a[2] = 0 THEN a[1] < 0
     ELSE IF b[2] = 0 THEN b[1] > 0
     ELSE a[1] * b[2] < b[1] * a[2]
RGt(a, b) == RLt(b, a)
RLe(a, b) == RLt(a, b) \/ REq(a, b)

RFloor(a) == a[1] \div a[2]

\* torch.sum of one row, added up from the left
TorchSum(row) ==
  LET partial[k \in 0..Len(row)] == IF k = 0 THEN Zero ELSE RAdd(partial[k - 1], row[k])
  IN  partial[Len(row)]

\* torch.max(sm, dim=1) on one row: the maximal value and the index of its first occurrence
TorchMaxValue(row) == CHOOSE m \in {row[c] : c \in DOMAIN row} : \A c \in DOMAIN row : RLe(row[c], m)
TorchArgMax(row) == CHOOSE c \in DOMAIN row :
                      /\ row[c] = TorchMaxValue(row)
                      /\ \A d \in DOMAIN row : row[d] = TorchMaxValue(row) => c <= d

\* torch.linspace(0, 1, n + 1)
LinspaceOf == [n \in 1..MaxBins |-> [i \in 1..(n + 1) |-> Norm(i - 1, n)]]
Linspace(n) == LinspaceOf[n]
BinLower(edges, b) == edges[b]
BinUpper(edges, b) == edges[b + 1]

\* the rule of torch.histc put in the place of the comparison of lines 88 and 143:
\* lower <= q < upper
InBinLeftInclusive(q, edges, b) == RLe(BinLower(edges, b), q) /\ RLt(q, BinUpper(edges, b))

\* confidences.gt(bin_lower) * confidences.le(bin_upper): right inclusive bins (,]
InBin(q, edges, b) == RGt(q, BinLower(edges, b)) /\ RLe(q, BinUpper(edges, b))

\* torch.histc(q, bins=n, min=0.0, max=1.0) of one value in [0,1]: the bin that is not zero
HistcBin(q, n) ==
  LET pos == RFloor(RMul(q, <<n, 1>>))
  IN  (IF pos = n THEN pos - 1 ELSE pos) + 1

(***************************************************************************)
(* Inputs                                                                  *)
(***************************************************************************)
\* top-1 confidences and correctness of the validation examples (lines 81-83)
ValExamples(n) == [conf : {Norm(k, Res(n)) : k \in 1..Res(n)}, correct : BOOLEAN]
ValSetsOf == [n \in 1..MaxBins |-> UNION {[1..k -> ValExamples(n)] : k \in 0..MaxVal}]
ValSets(n) == ValSetsOf[n]

\* scalar queries, one grid step outside [0,1] included
QueriesOf == [n \in 1..MaxBins |-> {Norm(k, Res(n)) : k \in -1..(Res(n) + 1)}]
Queries(n) == QueriesOf[n]

IntSum(s) ==
  LET partial[k \in 0..Len(s)] == IF k = 0 THEN 0 ELSE partial[k - 1] + s[k]
  IN  partial[Len(s)]

\* softmax rows: non-negative, summing to 1
RowsOf == [n \in 1..MaxBins |->
             {[c \in Classes |-> Norm(f[c], Res(n))] :
                f \in {g \in [Classes -> 0..Res(n)] : IntSum(g) = Res(n)}}]
Rows(n) == RowsOf[n]
BatchesOf == [n \in 1..MaxBins |-> UNION {[1..k -> Rows(n)] : k \in BatchSizes}]
Batches(n) == BatchesOf[n]
AllRows == UNION {Rows(n) : n \in 1..MaxBins}

Opts == {"iteration", "vectorize"}

\* the bins b of n with (b-1)/n < q <= b/n, for a finite q
RightInclusiveBins(q, n) == {b \in 1..n : (b - 1) * q[2] < q[1] * n /\ q[1] * n <= b * q[2]}

(***************************************************************************)
(* State                                                                   *)
(***************************************************************************)
VARIABLES
  n_bins,      \* self.n_bins
  histogram,   \* self.histogram; <<>> while the attribute does not exist
  bin_edges,   \* self.bin_lowers, self.bin_uppers as the edges they are cut from; <<>> while unset
  ret,         \* the outcome of the call that has just ended, until the caller takes it
  fit_status,  \* history: "none", or how the latest histogram_binning call ended
  fit_table,   \* history: self.histogram as the latest histogram_binning call left it
  fit_covered  \* history: the bins (lower, upper] that held a validation example of the latest fit

vars == <<n_bins, histogram, bin_edges, ret, fit_status, fit_table, fit_covered>>

NoCall == [op |-> "none", kind |-> "none", arg |-> <<>>, val |-> <<>>]
Return(op, arg, v) == [op |-> op, kind |-> "return", arg |-> arg, val |-> v]
Raise(op, arg, e) == [op |-> op, kind |-> "raise", arg |-> arg, val |-> e]

Init ==
  /\ n_bins \in 1..MaxBins
  /\ histogram = <<>>
  /\ bin_edges = <<>>
  /\ ret = NoCall
  /\ fit_status = "none"
  /\ fit_table = <<>>
  /\ fit_covered = {}

(***************************************************************************)
(* histogram_binning                                                       *)
(***************************************************************************)
InBinExamples(val, edges, b) == {i \in DOMAIN val : InBin(val[i].conf, edges, b)}

\* accuracies[in_bin].float().mean()
MeanAccuracy(val, members) ==
  Norm(Cardinality({i \in members : val[i].correct}), Cardinality(members))

\* lines 85-91: one bin of the table
BinPrecision(val, edges, b) ==
  LET members == InBinExamples(val, edges, b)
  IN  IF Cardinality(members) > 0 THEN MeanAccuracy(val, members) ELSE UNDEFINED

\* line 64
EmptyHistogram(n) == [b \in 1..n |-> UNDEFINED]

\* torch.cat of an empty list raises at line 77, after line 64 has stored the table
FittedHistogram(val, n) ==
  IF val = <<>> THEN EmptyHistogram(n)
  ELSE [b \in 1..n |-> BinPrecision(val, Linspace(n), b)]

histogram_binning(val) ==
  /\ bin_edges' = Linspace(n_bins)
  /\ histogram' = FittedHistogram(val, n_bins)
  /\ ret' = IF val = <<>> THEN Raise("histogram_binning", val, "RuntimeError")
            ELSE Return("histogram_binning", val, <<>>)
  /\ fit_status' = IF val = <<>> THEN "raised" ELSE "done"
  /\ fit_table' = histogram'
  /\ fit_covered' = {b \in 1..n_bins : \E i \in DOMAIN val : b \in RightInclusiveBins(val[i].conf, n_bins)}
  /\ UNCHANGED n_bins

(***************************************************************************)
(* get_posterior                                                           *)
(***************************************************************************)
\* lines 117-120
PosteriorOrQuery(res, q) == IF REq(res, UNDEFINED) THEN <<q, 0>> ELSE <<res, 1>>

GetPosteriorResult(hist, n, q) ==
  IF RLt(q, Zero) \/ RGt(q, One) THEN [kind |-> "raise", val |-> "ValueError"]
  ELSE IF hist = <<>> THEN [kind |-> "raise", val |-> "AttributeError"]
  ELSE [kind |-> "return", val |-> PosteriorOrQuery(hist[HistcBin(q, n)], q)]

get_posterior(q) ==
  /\ LET r == GetPosteriorResult(histogram, n_bins, q)
     IN  ret' = [op |-> "get_posterior", kind |-> r.kind, arg |-> q, val |-> r.val]
  /\ UNCHANGED <<n_bins, histogram, bin_edges, fit_status, fit_table, fit_covered>>

(***************************************************************************)
(* get_posterior_vectorized                                                *)
(***************************************************************************)
\* torch.max of every softmax row, computed once
TorchMaxOf == [row \in AllRows |-> <<TorchMaxValue(row), TorchArgMax(row)>>]

\* line 136
TopConfidences(sm) == [i \in DOMAIN sm |-> TorchMaxOf[sm[i]][1]]
Predictions(sm) == [i \in DOMAIN sm |-> TorchMaxOf[sm[i]][2]]

\* lines 142-146: idx[in_bin] = i.  Every row of a softmax has a top-1 confidence in
\* (0,1], which lies in exactly one bin (lower, upper].
VectorizedBin(q, edges) == CHOOSE b \in 1..(Len(edges) - 1) : InBin(q, edges, b)
VectorizedIdx(sm, edges) ==
  LET sm_query == TopConfidences(sm)
  IN  [i \in DOMAIN sm |-> VectorizedBin(sm_query[i], edges)]

\* line 151: indexing with a LongTensor gathers the entries into a new tensor
GatherHistogram(hist, idx) == [i \in DOMAIN idx |-> hist[idx[i]]]

\* lines 152-153
ValidFlags(res) == [i \in DOMAIN res |-> IF REq(res[i], UNDEFINED) THEN 0 ELSE 1]

\* line 154 left out: the sentinel stays in the result
FillUndefinedSkipped(res, sm_query) == res

\* line 154
FillUndefined(res, sm_query) ==
  [i \in DOMAIN res |-> IF REq(res[i], UNDEFINED) THEN sm_query[i] ELSE res[i]]

\* line 154 writing through a view of self.histogram instead of a copy
HistogramAfterFillAliased(hist, idx, sm_query) ==
  [b \in DOMAIN hist |->
     IF REq(hist[b], UNDEFINED) /\ \E i \in DOMAIN idx : idx[i] = b
     THEN sm_query[CHOOSE i \in DOMAIN idx : idx[i] = b /\ \A j \in DOMAIN idx : idx[j] = b => j <= i]
     ELSE hist[b]]

\* self.histogram after line 154: res is a copy, the table keeps its entries
HistogramAfterFill(hist, idx, sm_query) == hist

GetPosteriorVectorizedResult(hist, n, sm) ==
  IF hist = <<>> THEN [kind |-> "raise", val |-> "AttributeError"]
  ELSE LET res == GatherHistogram(hist, VectorizedIdx(sm, Linspace(n)))
       IN  [kind |-> "return",
            val |-> [res |-> FillUndefined(res, TopConfidences(sm)),
                     preds |-> Predictions(sm),
                     flags |-> ValidFlags(res)]]

\* lines 139-141 store the edges before line 151 reads self.histogram
VectorizedLookupEffect(sm) ==
  /\ bin_edges' = Linspace(n_bins)
  /\ histogram' = IF histogram = <<>> THEN histogram
                  ELSE HistogramAfterFill(histogram, VectorizedIdx(sm, Linspace(n_bins)),
                                          TopConfidences(sm))

get_posterior_vectorized(sm) ==
  /\ LET r == GetPosteriorVectorizedResult(histogram, n_bins, sm)
     IN  ret' = [op |-> "get_posterior_vectorized", kind |-> r.kind, arg |-> sm, val |-> r.val]
  /\ VectorizedLookupEffect(sm)
  /\ UNCHANGED <<n_bins, fit_status, fit_table, fit_covered>>

(***************************************************************************)
(* get_calibrated_softmax_vector                                           *)
(***************************************************************************)
\* lines 187-194 with the division by torch.sum(rescaled_sm) of line 191 left out
RescaledRowUnnormalised(row, pred, est) ==
  LET mask == [c \in DOMAIN row |-> IF c = pred THEN Zero ELSE One]
      remain_norm == RSub(One, est)
      scaled == [c \in DOMAIN row |-> RMul(remain_norm, RMul(row[c], mask[c]))]
      withTop == [scaled EXCEPT ![pred] = est]
      total == TorchSum(withTop)
  IN  [c \in DOMAIN row |-> RDiv(withTop[c], total)]

\* lines 187-194, one example
RescaledRow(row, pred, est) ==
  LET mask == [c \in DOMAIN row |-> IF c = pred THEN Zero ELSE One]
      remain_norm == RSub(One, est)
      masked == [c \in DOMAIN row |-> RMul(row[c], mask[c])]
      maskedSum == TorchSum(masked)
      scaled == [c \in DOMAIN row |-> RMul(remain_norm, RDiv(masked[c], maskedSum))]
      withTop == [scaled EXCEPT ![pred] = est]
      total == TorchSum(withTop)
  IN  [c \in DOMAIN row |-> RDiv(withTop[c], total)]

\* the values a lookup returns on an unchanged table: a query on the grid or a bin's mean
Estimates ==
  UNION {{Norm(k, Res(n)) : k \in 0..Res(n)} : n \in 1..MaxBins}
    \cup {Norm(a, b) : a \in 0..MaxVal, b \in 1..MaxVal}

\* RescaledRow of every softmax row and estimate, computed once
RescaledRowOf ==
  [row \in AllRows |-> [est \in Estimates |-> RescaledRow(row, TorchMaxOf[row][2], est)]]

RescaledExample(row, pred, est) ==
  IF est \in Estimates /\ pred = TorchMaxOf[row][2]
  THEN RescaledRowOf[row][est]
  ELSE RescaledRow(row, pred, est)

CalibratedResult(hist, n, sm) ==
  LET sm_argmax == TopConfidences(sm)
      predictions == Predictions(sm)
      post == [i \in DOMAIN sm |-> GetPosteriorResult(hist, n, sm_argmax[i])]
  IN  IF \E i \in DOMAIN sm : post[i].kind = "raise"
      THEN [kind |-> "raise",
            val |-> post[CHOOSE i \in DOMAIN sm : post[i].kind = "raise"
                                                  /\ \A j \in DOMAIN sm : post[j].kind = "raise" => i <= j].val]
      ELSE [kind |-> "return",
            val |-> [sm_calib |-> [i \in DOMAIN sm |->
                                     RescaledExample(sm[i], predictions[i], post[i].val[1])],
                     flags |-> [i \in DOMAIN sm |-> post[i].val[2]]]]

get_calibrated_softmax_vector(sm) ==
  /\ LET r == CalibratedResult(histogram, n_bins, sm)
     IN  ret' = [op |-> "get_calibrated_softmax_vector", kind |-> r.kind, arg |-> sm, val |-> r.val]
  /\ UNCHANGED <<n_bins, histogram, bin_edges, fit_status, fit_table, fit_covered>>

(***************************************************************************)
(* get_calibrated_softmax_vector_vectorized                                *)
(***************************************************************************)
PredColumns(preds) == {preds[j] : j \in DOMAIN preds}

\* line 228 writes est_posterior[j] to column preds[j] of every row; with the same
\* column named by several j the write that lasts is not defined (index_put_)
ColumnWriters(preds) ==
  {w \in [PredColumns(preds) -> DOMAIN preds] : \A c \in PredColumns(preds) : preds[w[c]] = c}

\* line 207: mask[:, preds] = 0.0
BatchMask(sm, preds) ==
  LET cols == PredColumns(preds)
  IN  [i \in DOMAIN sm |-> [c \in DOMAIN sm[i] |-> IF c \in cols THEN Zero ELSE One]]

\* lines 210-216, one row: sm * mask, divided by its sum
NormedRow(row, maskRow) ==
  LET masked == [c \in DOMAIN row |-> RMul(row[c], maskRow[c])]
      rowSum == TorchSum(masked)
  IN  [c \in DOMAIN row |-> RDiv(masked[c], rowSum)]

\* NormedRow of every softmax row and every mask row, computed once
NormedRowOf ==
  [row \in AllRows |-> [maskRow \in [Classes -> {Zero, One}] |-> NormedRow(row, maskRow)]]

\* lines 209-228
RescaledBatch(sm, preds, est, w) ==
  LET mask == BatchMask(sm, preds)
      normed == [i \in DOMAIN sm |-> NormedRowOf[sm[i]][mask[i]]]
      remain_norm == [i \in DOMAIN sm |-> RSub(One, est[i])]
      scaled == [i \in DOMAIN sm |-> [c \in DOMAIN sm[i] |-> RMul(normed[i][c], remain_norm[i])]]
      cols == PredColumns(preds)
  IN  [i \in DOMAIN sm |->
         [c \in DOMAIN sm[i] |-> IF c \in cols THEN est[w[c]] ELSE scaled[i][c]]]

CalibratedVectorizedResult(hist, n, sm, w) ==
  LET look == GetPosteriorVectorizedResult(hist, n, sm)
  IN  IF look.kind = "raise" THEN look
      ELSE [kind |-> "return",
            val |-> [sm_calib |-> RescaledBatch(sm, look.val.preds, look.val.res, w),
                     flags |-> look.val.flags]]

get_calibrated_softmax_vector_vectorized(sm) ==
  /\ \E w \in ColumnWriters(Predictions(sm)) :
       LET r == CalibratedVectorizedResult(histogram, n_bins, sm, w)
       IN  ret' = [op |-> "get_calibrated_softmax_vector_vectorized", kind |-> r.kind,
                   arg |-> sm, val |-> r.val]
  /\ VectorizedLookupEffect(sm)
  /\ UNCHANGED <<n_bins, fit_status, fit_table, fit_covered>>

(***************************************************************************)
(* forward                                                                 *)
(***************************************************************************)
\* lines 46-49 on softmax_output
forward(sm, opt) ==
  /\ IF opt = "iteration"
     THEN /\ LET r == CalibratedResult(histogram, n_bins, sm)
             IN  ret' = [op |-> "forward", kind |-> r.kind, arg |-> <<sm, opt>>, val |-> r.val]
          /\ UNCHANGED <<histogram, bin_edges>>
     ELSE /\ \E w \in ColumnWriters(Predictions(sm)) :
               LET r == CalibratedVectorizedResult(histogram, n_bins, sm, w)
               IN  ret' = [op |-> "forward", kind |-> r.kind, arg |-> <<sm, opt>>, val |-> r.val]
          /\ VectorizedLookupEffect(sm)
  /\ UNCHANGED <<n_bins, fit_status, fit_table, fit_covered>>

\* the caller takes the result of the call (the driver, lines 375-381)
TakeResult ==
  /\ ret # NoCall
  /\ ret' = NoCall
  /\ UNCHANGED <<n_bins, histogram, bin_edges, fit_status, fit_table, fit_covered>>

(***************************************************************************)
(* Specifications                                                          *)
(***************************************************************************)
Idle == ret = NoCall

Fit == Idle /\ \E val \in ValSets(n_bins) : histogram_binning(val)
Lookup == Idle /\ \E q \in Queries(n_bins) : get_posterior(q)
LookupVectorized == Idle /\ \E sm \in Batches(n_bins) : get_posterior_vectorized(sm)
Calibrate == Idle /\ \E sm \in Batches(n_bins) : get_calibrated_softmax_vector(sm)
CalibrateVectorized == Idle /\ \E sm \in Batches(n_bins) : get_calibrated_softmax_vector_vectorized(sm)
Forward == Idle /\ \E sm \in Batches(n_bins), opt \in Opts : forward(sm, opt)

\* every method of the estimator, on every input
Next == Fit \/ Lookup \/ LookupVectorized \/ Calibrate \/ CalibrateVectorized \/ Forward \/ TakeResult
Spec == Init /\ [][Next]_vars

\* fitting and single-example lookups
NextFit == Fit \/ Lookup \/ TakeResult
SpecFit == Init /\ [][NextFit]_vars

\* a calibration session: fits, single-example lookups and forward calls
NextSession == Fit \/ Lookup \/ Forward \/ TakeResult
SpecSession == Init /\ [][NextSession]_vars

(***************************************************************************)
(* Properties                                                              *)
(***************************************************************************)
\* the batch of softmax rows the call that has just ended was given
CallBatch == IF ret.op = "forward" THEN ret.arg[1] ELSE ret.arg

IterationReturn ==
  /\ ret.kind = "return"
  /\ \/ ret.op = "get_calibrated_softmax_vector"
     \/ ret.op = "forward" /\ ret.arg[2] = "iteration"

VectorizedReturn ==
  /\ ret.kind = "return"
  /\ \/ ret.op = "get_calibrated_softmax_vector_vectorized"
     \/ ret.op = "forward" /\ ret.arg[2] # "iteration"

\* the top-1 index of a probability vector: the first index of its maximum
Top1(p) == CHOOSE k \in DOMAIN p : /\ \A c \in DOMAIN p : RLe(p[c], p[k])
                                   /\ \A c \in DOMAIN p : c < k => RLt(p[c], p[k])

\* what a lookup that selected bin b of the table owes the query q
LookupOf(table, b, q) == IF table[b] = UNDEFINED THEN <<q, 0>> ELSE <<table[b], 1>>

\* the validation examples with (b-1)/n < confidence <= b/n
ExamplesIn(val, n, b) == {i \in DOMAIN val : b \in RightInclusiveBins(val[i].conf, n)}

\* x is the mean of correct over the non-empty set S of examples
IsMeanOver(x, val, S) ==
  /\ x[2] > 0
  /\ x[1] * Cardinality(S) = Cardinality({i \in S : val[i].correct}) * x[2]
  /\ 0 <= x[1] /\ x[1] <= x[2]

IsTableOf(table, val, n) ==
  /\ Len(table) = n
  /\ \A b \in 1..n :
       IF ExamplesIn(val, n, b) # {}
       THEN IsMeanOver(table[b], val, ExamplesIn(val, n, b))
       ELSE table[b] = UNDEFINED

\* C1: get_posterior(q) and get_posterior_vectorized on a row whose maximum is q
\* select the same bin and return the same (value, valid) pair, for every fitted
\* table and every q in (0,1], bin edges included.
C1_LookupPathsAgree ==
  (fit_status = "done" /\ ret.op = "get_posterior_vectorized" /\ ret.kind = "return") =>
    \A i \in DOMAIN ret.arg :
      LET q == TorchMaxOf[ret.arg[i]][1]
          single == GetPosteriorResult(histogram, n_bins, q)
      IN  /\ single.kind = "return"
          /\ HistcBin(q, n_bins) = VectorizedBin(q, Linspace(n_bins))
          /\ single.val = <<ret.val.res[i], ret.val.flags[i]>>

\* C2: in get_calibrated_softmax_vector_vectorized, output row i is a function of
\* input row i and the table only: replacing any other row of the batch leaves
\* output row i unchanged.
C2_RowsIndependent ==
  (fit_status = "done" /\ VectorizedReturn) =>
    \A i \in DOMAIN CallBatch :
      \A other \in Batches(n_bins) :
        (Len(other) = Len(CallBatch) /\ other[i] = CallBatch[i]) =>
          \A w \in ColumnWriters(Predictions(other)) :
            CalibratedVectorizedResult(histogram, n_bins, other, w).val.sm_calib[i]
              = ret.val.sm_calib[i]

\* C3: for every fitted table and every batch of probability vectors, forward
\* (either opt) returns for each example non-negative entries that sum to 1.
C3_OutputSumsToOne ==
  (fit_status = "done" /\ ret.op = "forward" /\ ret.kind = "return") =>
    \A i \in DOMAIN ret.val.sm_calib :
      LET o == ret.val.sm_calib[i]
      IN  /\ \A c \in DOMAIN o : RLe(Zero, o[c])
          /\ TorchSum(o) = One

\* C4: in get_calibrated_softmax_vector, for an example p with top-1 index k,
\* p[k] < 1 and looked-up estimate est, the output o has o[k] = est and
\* o[j] = p[j] / (1 - p[k]) * (1 - est) for j # k; when est = p[k], as for an
\* UNDEFINED bin, the output equals the input.
C4_PerExampleRescaling ==
  IterationReturn =>
    \A i \in DOMAIN CallBatch :
      LET p == CallBatch[i]
          k == Top1(p)
          est == GetPosteriorResult(histogram, n_bins, p[k]).val[1]
          o == ret.val.sm_calib[i]
      IN  RLt(p[k], One) =>
            /\ o[k] = est
            /\ \A j \in DOMAIN p \ {k} :
                 o[j] = RMul(RDiv(p[j], RSub(One, p[k])), RSub(One, est))
            /\ est = p[k] => o = p
            /\ histogram[HistcBin(p[k], n_bins)] = UNDEFINED => (est = p[k] /\ o = p)

C4_Witness ==
  /\ IterationReturn
  /\ \E i \in DOMAIN CallBatch :
       LET p == CallBatch[i]
           k == Top1(p)
       IN  /\ RLt(p[k], One)
           /\ \A c \in DOMAIN p : RLt(Zero, p[c])
           /\ ret.val.flags[i] = 1
           /\ ret.val.sm_calib[i][k] # p[k]
           /\ ret.val.sm_calib[i][k] # One

C6_UndefinedBinPassthrough ==
  /\ (ret.op = "get_posterior" /\ ret.kind = "return") =>
       LET b == HistcBin(ret.arg, n_bins)
       IN  /\ ret.val = LookupOf(histogram, b, ret.arg)
           /\ ret.val[1] # UNDEFINED
           /\ ret.val[2] = 0 <=> b \notin fit_covered
  /\ (ret.op = "get_posterior_vectorized" /\ ret.kind = "return") =>
       \A i \in DOMAIN ret.arg :
         LET q == TorchMaxOf[ret.arg[i]][1]
             b == VectorizedBin(q, bin_edges)
         IN  /\ <<ret.val.res[i], ret.val.flags[i]>> = LookupOf(histogram, b, q)
             /\ ret.val.res[i] # UNDEFINED
             /\ ret.val.flags[i] = 0 <=> b \notin fit_covered
  /\ IterationReturn =>
       \A i \in DOMAIN CallBatch :
         ret.val.flags[i] = 0
           <=> HistcBin(TorchMaxOf[CallBatch[i]][1], n_bins) \notin fit_covered
  /\ VectorizedReturn =>
       \A i \in DOMAIN CallBatch :
         ret.val.flags[i] = 0
           <=> VectorizedBin(TorchMaxOf[CallBatch[i]][1], bin_edges) \notin fit_covered

C6_Witness ==
  /\ ret.op = "get_posterior_vectorized"
  /\ ret.kind = "return"
  /\ fit_status = "done"
  /\ \E i, j \in DOMAIN ret.arg :
       /\ ret.val.flags[i] = 0
       /\ ret.val.res[i] = TorchMaxOf[ret.arg[i]][1]
       /\ ret.val.flags[j] = 1

\* C7: get_posterior selects the bin of a query with the right-inclusive rule of
\* fitting: for 0 < q <= 1, bin edges included, it reads entry i with
\* i/n_bins < q <= (i+1)/n_bins; a query equal to the confidence of a validation
\* example reads the bin that example was counted in and is returned as valid.
C7_LookupRightInclusive ==
  (fit_status = "done" /\ ret.op = "get_posterior" /\ ret.kind = "return" /\ RLt(Zero, ret.arg)) =>
    /\ HistcBin(ret.arg, n_bins) \in RightInclusiveBins(ret.arg, n_bins)
    /\ \A b \in RightInclusiveBins(ret.arg, n_bins) :
         /\ ret.val = LookupOf(histogram, b, ret.arg)
         /\ b \in fit_covered => ret.val[2] = 1

\* C8: for a one-hot input (p[k] = 1) and any estimate est, the calibration does
\* not fail and splits the remainder uniformly: o[k] = est and
\* o[j] = (1 - est) / (n_classes - 1) for j # k.
C8_OneHotUniformSplit ==
  (fit_status = "done" /\ (IterationReturn \/ VectorizedReturn)) =>
    \A i \in DOMAIN CallBatch :
      LET p == CallBatch[i]
          k == Top1(p)
          est == IF IterationReturn
                 THEN GetPosteriorResult(histogram, n_bins, p[k]).val[1]
                 ELSE GetPosteriorVectorizedResult(histogram, n_bins, CallBatch).val.res[i]
          o == ret.val.sm_calib[i]
      IN  p[k] = One =>
            /\ o[k] = est
            /\ \A j \in DOMAIN p \ {k} :
                 o[j] = RDiv(RSub(One, est), <<Cardinality(DOMAIN p) - 1, 1>>)

\* C9: once histogram_binning has run, the table is read-only: after any sequence
\* of lookups and calibrations every entry and the length n_bins are as right
\* after fitting, and the result of a call is the one the fitted table gives.
C9_TableReadOnly ==
  fit_status # "none" =>
    /\ histogram = fit_table
    /\ Len(histogram) = n_bins
    /\ (ret.op = "get_posterior" /\ ret.kind = "return") =>
         ret.val = GetPosteriorResult(fit_table, n_bins, ret.arg).val
    /\ (ret.op = "get_posterior_vectorized" /\ ret.kind = "return") =>
         ret.val = GetPosteriorVectorizedResult(fit_table, n_bins, ret.arg).val
    /\ IterationReturn => ret.val = CalibratedResult(fit_table, n_bins, CallBatch).val
    /\ VectorizedReturn =>
         \E w \in ColumnWriters(Predictions(CallBatch)) :
           ret.val = CalibratedVectorizedResult(fit_table, n_bins, CallBatch, w).val

C9_Witness ==
  /\ VectorizedReturn
  /\ fit_status = "done"
  /\ \E i \in DOMAIN CallBatch :
       /\ ret.val.flags[i] = 0
       /\ histogram[VectorizedBin(TorchMaxOf[CallBatch[i]][1], bin_edges)] = UNDEFINED

\* C10: a forward call that returns calibrated vectors is preceded by a completed
\* histogram_binning call; forward and get_posterior before any histogram_binning
\* end in an error; after a histogram_binning call every table entry is determined
\* by the validation set of that call alone.
C10_FitPrecedesCalibration ==
  /\ (ret.op = "forward" /\ ret.kind = "return") => fit_status = "done"
  /\ (fit_status = "none" /\ ret.op \in {"forward", "get_posterior"}) => ret.kind = "raise"
  /\ (ret.op = "histogram_binning" /\ ret.kind = "return") =>
       IsTableOf(histogram, ret.arg, n_bins)
====
